---- MODULE Spec2Model ----
\* A model of src/app.py, the FLAMES name game: sanitize, find_common_pairs,
\* eliminate_flames_animation, map_result and the body of `if submitted:`.
\* Characters are one-character values ("a", "B", " ", ...); a Python str or
\* list of characters is a TLA+ sequence of them.  Python indices are 0-based
\* and are kept 0-based wherever the program stores or computes them (pairs,
\* index); the element at Python index i of a sequence s is s[i + 1].
\* Rendering (markdown placeholders, time.sleep) changes no program state the
\* properties read and is left out; the timestamp column of the CSV row is
\* left out as well.
EXTENDS Integers, Sequences, FiniteSets, TLC

VARIABLES
    pc,             \* position in the script
    name1, name2,   \* the two text inputs (raw strings)
    s1, s2,         \* sanitize(name1), sanitize(name2)
    error,          \* TRUE once st.error(...) was shown
    a_chars, b_chars,
    pairs, removed_a, removed_b,
    k,              \* how many pairs the cross-out loop has animated
    remaining,
    count, flames, steps,   \* locals of eliminate_flames_animation
    final_letter, title,
    csv,            \* rows appended to flames_sessions.csv by this run
    warning,        \* TRUE once st.warning("Couldn't save CSV") was shown
    calls           \* names of the functions this run has called

vars == <<pc, name1, name2, s1, s2, error, a_chars, b_chars, pairs, removed_a,
          removed_b, k, remaining, count, flames, steps, final_letter, title,
          csv, warning, calls>>

-----------------------------------------------------------------------------
\* Bounds and program constants

\* longest raw name typed into the form in Spec
MaxLen == 3
\* longest raw string given to sanitize in SpecSanitize
MaxRawLen == 3
\* st.text_input(..., max_chars=50)
max_chars == 50

\* characters typed into the form in Spec: a lowercase letter, an uppercase
\* letter and a space
NameChars == {"a", "B", " "}

\* characters given to sanitize in SpecSanitize: ASCII lowercase, ASCII
\* uppercase, digit, space, punctuation, and alphabetic characters outside
\* a-z/A-Z (e_acute = U+00E9, E_acute = U+00C9, I_dot = U+0130)
RawChars == {"a", "b", "A", "B", "1", " ", "!", "e_acute", "E_acute", "I_dot"}

\* the letters a-z that occur in the model
AsciiLower == {"a", "b", "i"}

RECURSIVE StringsUpTo(_, _)
StringsUpTo(chars, n) ==
    IF n = 0 THEN {<<>>}
    ELSE LET shorter == StringsUpTo(chars, n - 1)
         IN  shorter \cup {Append(s, c) : s \in shorter, c \in chars}

Min(x, y) == IF x < y THEN x ELSE y

\* Python slices seq[i:] and seq[:i] for i >= 0 (out-of-range i is clamped)
SliceFrom(seq, i) == SubSeq(seq, Min(i, Len(seq)) + 1, Len(seq))
SliceTo(seq, i) == SubSeq(seq, 1, Min(i, Len(seq)))

-----------------------------------------------------------------------------
\* sanitize

\* str.lower() of one character: a sequence, since U+0130 lowercases to the
\* two code points "i" U+0307 (comb_dot)
lower(ch) ==
    CASE ch = "A" -> <<"a">>
      [] ch = "B" -> <<"b">>
      [] ch = "E_acute" -> <<"e_acute">>
      [] ch = "I_dot" -> <<"i", "comb_dot">>
      [] OTHER -> <<ch>>

\* str.isalpha() of one character
isalpha(ch) == ch \in {"a", "b", "i", "A", "B", "e_acute", "E_acute", "I_dot"}

\* name.lower()
RECURSIVE str_lower(_)
str_lower(name) ==
    IF name = <<>> THEN <<>> ELSE lower(Head(name)) \o str_lower(Tail(name))

\* "".join([ch for ch in name.lower() if ch.isalpha()])
sanitize(name) == SelectSeq(str_lower(name), isalpha)

\* name.strip(): whitespace removed from both ends
RECURSIVE lstrip(_)
lstrip(name) ==
    IF name /= <<>> /\ Head(name) = " " THEN lstrip(Tail(name)) ELSE name

RECURSIVE rstrip(_)
rstrip(name) ==
    IF name /= <<>> /\ name[Len(name)] = " "
    THEN rstrip(SubSeq(name, 1, Len(name) - 1)) ELSE name

strip(name) == rstrip(lstrip(name))

-----------------------------------------------------------------------------
\* find_common_pairs

AllFalse(seq) == [x \in 1..Len(seq) |-> FALSE]

\* if ch == ch2
inner_match_ignoring_removed(ch, ch2, rem_b_j) == ch = ch2

\* if not removed_b[j] and ch == ch2
inner_match(ch, ch2, rem_b_j) == ~rem_b_j /\ ch = ch2

\* the inner loop run over range(j + 1, len(b_chars)): position j is skipped
inner_scan_skipping_first(ch, b, rem_b, j) ==
    LET hits == {x \in (j + 1)..(Len(b) - 1) : inner_match(ch, b[x + 1], rem_b[x + 1])}
    IN  IF hits = {} THEN -1 ELSE CHOOSE x \in hits : \A y \in hits : x <= y

\* the inner loop `for j, ch2 in enumerate(b_chars)` from position j on: the
\* j at which it breaks, or -1 when it runs to the end without a match
RECURSIVE inner_scan(_, _, _, _)
inner_scan(ch, b, rem_b, j) ==
    IF j >= Len(b) THEN -1
    ELSE IF inner_match(ch, b[j + 1], rem_b[j + 1]) THEN j
    ELSE inner_scan(ch, b, rem_b, j + 1)

\* the inner loop without its `break`: every unremoved equal letter of b_chars
\* is paired with a_chars[i]
RECURSIVE inner_loop_no_break(_, _, _, _, _)
inner_loop_no_break(ch, b, i, j, st) ==
    IF j >= Len(b) THEN st
    ELSE inner_loop_no_break(ch, b, i, j + 1,
             IF inner_match(ch, b[j + 1], st.removed_b[j + 1])
             THEN [pairs |-> Append(st.pairs, <<i, j>>),
                   removed_a |-> [st.removed_a EXCEPT ![i + 1] = TRUE],
                   removed_b |-> [st.removed_b EXCEPT ![j + 1] = TRUE]]
             ELSE st)

RECURSIVE outer_loop_no_break(_, _, _, _)
outer_loop_no_break(a, b, i, st) ==
    IF i >= Len(a) THEN st
    ELSE outer_loop_no_break(a, b, i + 1, inner_loop_no_break(a[i + 1], b, i, 0, st))

\* the outer loop `for i, ch in enumerate(a_chars)` from position i on
RECURSIVE outer_loop(_, _, _, _)
outer_loop(a, b, i, st) ==
    IF i >= Len(a) THEN st
    ELSE LET j == inner_scan(a[i + 1], b, st.removed_b, 0)
         IN  outer_loop(a, b, i + 1,
                 IF j = -1 THEN st
                 ELSE [pairs |-> Append(st.pairs, <<i, j>>),
                       removed_a |-> [st.removed_a EXCEPT ![i + 1] = TRUE],
                       removed_b |-> [st.removed_b EXCEPT ![j + 1] = TRUE]])

find_common_pairs(a, b) ==
    outer_loop(a, b, 0,
        [pairs |-> <<>>, removed_a |-> AllFalse(a), removed_b |-> AllFalse(b)])

-----------------------------------------------------------------------------
\* eliminate_flames_animation

FLAMES == <<"F", "L", "A", "M", "E", "S">>

\* index = count % n
RemovalIndexNoMinusOne(cnt, n) == cnt % n

\* index = (count - 1) % n
RemovalIndex(cnt, n) == (cnt - 1) % n

\* list.pop(index) leaves the list without its element at index
Popped(seq, index) == SliceTo(seq, index) \o SliceFrom(seq, index + 1)

\* the rotation left out
NotRotated(seq, index) == seq

\* flames[index:] + flames[:index]
Rotated(seq, index) == SliceFrom(seq, index) \o SliceTo(seq, index)

\* while len(flames) > 2
LoopGuardStopsAtTwo(fl) == Len(fl) > 2

\* while len(flames) > 1
LoopGuard(fl) == Len(fl) > 1

\* the body of the while loop: the letter removed and the list it leaves
LoopBody(cnt, fl) ==
    LET n == Len(fl)
        index == RemovalIndex(cnt, n)
        removed_char == fl[index + 1]
        popped == Popped(fl, index)
    IN  [removed_char |-> removed_char,
         flames |-> IF Len(popped) > 0 THEN Rotated(popped, index) ELSE popped]

\* the while loop from the state (fl, st) on, and the return value
RECURSIVE while_loop(_, _, _)
while_loop(cnt, fl, st) ==
    IF LoopGuard(fl)
    THEN LET r == LoopBody(cnt, fl)
         IN  while_loop(cnt, r.flames, Append(st, r.removed_char))
    ELSE [final |-> fl[1], steps |-> st]

\* eliminate_flames_animation(count, ...): (final, steps)
eliminate_flames_animation(cnt) == while_loop(cnt, FLAMES, <<>>)

map_result(letter) ==
    CASE letter = "F" -> "Friends"
      [] letter = "L" -> "Love"
      [] letter = "A" -> "Affection"
      [] letter = "M" -> "Marriage"
      [] letter = "E" -> "Enemies"
      [] letter = "S" -> "Siblings"
      [] OTHER -> "Unknown"

-----------------------------------------------------------------------------
\* The script

\* sum(1 for x in removed if x): the removed letters counted instead
CountRemoved(removed) == Cardinality({x \in DOMAIN removed : removed[x]})

\* sum(1 for x in removed if not x)
CountNotRemoved(removed) == Cardinality({x \in DOMAIN removed : ~removed[x]})

\* s1 == "" and s2 == ""
BothEmpty(x, y) == x = <<>> /\ y = <<>>

\* s1 == "" or s2 == ""
InvalidInput(x, y) == x = <<>> \/ y = <<>>

Init ==
    /\ pc = "form"
    /\ name1 = <<>> /\ name2 = <<>>
    /\ s1 = <<>> /\ s2 = <<>>
    /\ error = FALSE
    /\ a_chars = <<>> /\ b_chars = <<>>
    /\ pairs = <<>> /\ removed_a = <<>> /\ removed_b = <<>>
    /\ k = 0
    /\ remaining = 0
    /\ count = 0 /\ flames = <<>> /\ steps = <<>>
    /\ final_letter = "" /\ title = ""
    /\ csv = <<>>
    /\ warning = FALSE
    /\ calls = {}

\* `if submitted:` with an invalid name: sanitize both, show the error
SubmitInvalid ==
    /\ pc = "form"
    /\ \E n1 \in StringsUpTo(NameChars, MaxLen), n2 \in StringsUpTo(NameChars, MaxLen) :
        /\ InvalidInput(sanitize(n1), sanitize(n2))
        /\ name1' = n1 /\ name2' = n2
        /\ s1' = sanitize(n1) /\ s2' = sanitize(n2)
        /\ error' = TRUE
        /\ calls' = calls \cup {"sanitize"}
        /\ pc' = "error"
        /\ UNCHANGED <<a_chars, b_chars, pairs, removed_a, removed_b, k,
                       remaining, count, flames, steps, final_letter, title,
                       csv, warning>>

\* `if submitted:` with two valid names, up to the start of the cross-out loop
SubmitValid ==
    /\ pc = "form"
    /\ \E n1 \in StringsUpTo(NameChars, MaxLen), n2 \in StringsUpTo(NameChars, MaxLen) :
        /\ ~InvalidInput(sanitize(n1), sanitize(n2))
        /\ name1' = n1 /\ name2' = n2
        /\ s1' = sanitize(n1) /\ s2' = sanitize(n2)
        /\ a_chars' = sanitize(n1) /\ b_chars' = sanitize(n2)
        /\ LET r == find_common_pairs(sanitize(n1), sanitize(n2))
           IN  /\ pairs' = r.pairs
               /\ removed_a' = r.removed_a
               /\ removed_b' = r.removed_b
        /\ k' = 0
        /\ calls' = calls \cup {"sanitize", "find_common_pairs"}
        /\ pc' = "animate"
        /\ UNCHANGED <<error, remaining, count, flames, steps, final_letter,
                       title, csv, warning>>

\* one iteration of `for i, j in pairs:`
AnimateCross ==
    /\ pc = "animate"
    /\ k < Len(pairs)
    /\ LET i == pairs[k + 1][1]
           j == pairs[k + 1][2]
       IN  /\ removed_a' = [removed_a EXCEPT ![i + 1] = TRUE]
           /\ removed_b' = [removed_b EXCEPT ![j + 1] = TRUE]
    /\ k' = k + 1
    /\ UNCHANGED <<pc, name1, name2, s1, s2, error, a_chars, b_chars, pairs,
                   remaining, count, flames, steps, final_letter, title, csv,
                   warning, calls>>

\* after the loop: remaining, then the call of eliminate_flames_animation up to
\* its while loop
CountRemaining ==
    /\ pc = "animate"
    /\ k = Len(pairs)
    /\ remaining' = CountNotRemoved(removed_a) + CountNotRemoved(removed_b)
    /\ count' = remaining'
    /\ flames' = FLAMES
    /\ steps' = <<>>
    /\ calls' = calls \cup {"eliminate_flames_animation"}
    /\ pc' = "eliminate"
    /\ UNCHANGED <<name1, name2, s1, s2, error, a_chars, b_chars, pairs,
                   removed_a, removed_b, k, final_letter, title, csv, warning>>

\* one iteration of `while len(flames) > 1:`
ElimStep ==
    /\ pc = "eliminate"
    /\ LoopGuard(flames)
    /\ LET r == LoopBody(count, flames)
       IN  /\ steps' = Append(steps, r.removed_char)
           /\ flames' = r.flames
    /\ UNCHANGED <<pc, name1, name2, s1, s2, error, a_chars, b_chars, pairs,
                   removed_a, removed_b, k, remaining, count, final_letter,
                   title, csv, warning, calls>>

\* the loop is left: final = flames[0]; return final, steps
ElimReturn ==
    /\ pc = "eliminate"
    /\ ~LoopGuard(flames)
    /\ final_letter' = flames[1]
    /\ pc' = "returned"
    /\ UNCHANGED <<name1, name2, s1, s2, error, a_chars, b_chars, pairs,
                   removed_a, removed_b, k, remaining, count, flames, steps,
                   title, csv, warning, calls>>

\* title, emoji, one_liner = map_result(final_letter), and the result is shown
ShowResult ==
    /\ pc = "returned"
    /\ title' = map_result(final_letter)
    /\ calls' = calls \cup {"map_result"}
    /\ pc' = "save"
    /\ UNCHANGED <<name1, name2, s1, s2, error, a_chars, b_chars, pairs,
                   removed_a, removed_b, k, remaining, count, flames, steps,
                   final_letter, csv, warning>>

\* df.to_csv(csv_path, mode="a", ...) succeeds
SaveCsv ==
    /\ pc = "save"
    /\ csv' = Append(csv, [name1 |-> strip(name1), name2 |-> strip(name2),
                           remaining_count |-> remaining,
                           result_letter |-> final_letter,
                           result_word |-> title])
    /\ calls' = calls \cup {"to_csv"}
    /\ pc' = "done"
    /\ UNCHANGED <<name1, name2, s1, s2, error, a_chars, b_chars, pairs,
                   removed_a, removed_b, k, remaining, count, flames, steps,
                   final_letter, title, warning>>

\* df.to_csv raises: except Exception -> st.warning
SaveCsvFails ==
    /\ pc = "save"
    /\ warning' = TRUE
    /\ calls' = calls \cup {"to_csv"}
    /\ pc' = "done"
    /\ UNCHANGED <<name1, name2, s1, s2, error, a_chars, b_chars, pairs,
                   removed_a, removed_b, k, remaining, count, flames, steps,
                   final_letter, title, csv>>

Next ==
    \/ SubmitInvalid
    \/ SubmitValid
    \/ AnimateCross
    \/ CountRemaining
    \/ ElimStep
    \/ ElimReturn
    \/ ShowResult
    \/ SaveCsv
    \/ SaveCsvFails

Spec == Init /\ [][Next]_vars

-----------------------------------------------------------------------------
\* eliminate_flames_animation alone, for every count two names of at most
\* max_chars characters can leave

InitElim ==
    /\ pc = "eliminate"
    /\ count \in 0..(2 * max_chars)
    /\ remaining = count
    /\ flames = FLAMES
    /\ steps = <<>>
    /\ name1 = <<>> /\ name2 = <<>>
    /\ s1 = <<>> /\ s2 = <<>>
    /\ error = FALSE
    /\ a_chars = <<>> /\ b_chars = <<>>
    /\ pairs = <<>> /\ removed_a = <<>> /\ removed_b = <<>>
    /\ k = 0
    /\ final_letter = "" /\ title = ""
    /\ csv = <<>>
    /\ warning = FALSE
    /\ calls = {"eliminate_flames_animation"}

NextElim == ElimStep \/ ElimReturn

SpecElim == InitElim /\ [][NextElim]_vars

\* the while loop runs on its own: each iteration follows the previous one
SpecElimLive == SpecElim /\ WF_vars(NextElim)

-----------------------------------------------------------------------------
\* sanitize alone, over raw strings of every character class

InitSanitize ==
    /\ pc = "sanitize"
    /\ name1 \in StringsUpTo(RawChars, MaxRawLen)
    /\ name2 = <<>>
    /\ s1 = <<>> /\ s2 = <<>>
    /\ error = FALSE
    /\ a_chars = <<>> /\ b_chars = <<>>
    /\ pairs = <<>> /\ removed_a = <<>> /\ removed_b = <<>>
    /\ k = 0
    /\ remaining = 0
    /\ count = 0 /\ flames = <<>> /\ steps = <<>>
    /\ final_letter = "" /\ title = ""
    /\ csv = <<>>
    /\ warning = FALSE
    /\ calls = {}

SanitizeCall ==
    /\ pc = "sanitize"
    /\ s1' = sanitize(name1)
    /\ calls' = calls \cup {"sanitize"}
    /\ pc' = "sanitized"
    /\ UNCHANGED <<name1, name2, s2, error, a_chars, b_chars, pairs,
                   removed_a, removed_b, k, remaining, count, flames, steps,
                   final_letter, title, csv, warning>>

NextSanitize == SanitizeCall

SpecSanitize == InitSanitize /\ [][NextSanitize]_vars

-----------------------------------------------------------------------------
\* Properties of the matching (specification Spec)

PairSet == {pairs[x] : x \in DOMAIN pairs}

\* the indices of b_chars paired with an index of a_chars smaller than i
UsedBefore(i) == {p[2] : p \in {q \in PairSet : q[1] < i}}

\* the indices of b_chars that a_chars[i] may still be paired with
Candidates(i) ==
    {j \in 0..(Len(b_chars) - 1) :
        b_chars[j + 1] = a_chars[i + 1] /\ j \notin UsedBefore(i)}

SetMin(S) == CHOOSE x \in S : \A y \in S : x <= y

\* pc values at which remaining has been computed
AfterCount == {"eliminate", "returned", "save", "done"}

\* C1: find_common_pairs returns the greedy first-available pairing: the pairs
\* are listed by increasing index of A, A[i] is paired with the smallest j
\* not paired with an earlier index such that B[j] = A[i], and is unpaired
\* when there is none; paired letters are equal, no index of A or of B is in
\* two pairs, and removed_a / removed_b are true exactly at the paired indices.
C1_GreedyFirstAvailable ==
    "find_common_pairs" \in calls =>
        /\ \A x, y \in DOMAIN pairs : x < y => pairs[x][1] < pairs[y][1]
        /\ \A i \in 0..(Len(a_chars) - 1) :
              IF Candidates(i) = {}
              THEN \A p \in PairSet : p[1] /= i
              ELSE <<i, SetMin(Candidates(i))>> \in PairSet
        /\ \A p \in PairSet :
              /\ p[1] \in 0..(Len(a_chars) - 1)
              /\ p[2] \in 0..(Len(b_chars) - 1)
              /\ a_chars[p[1] + 1] = b_chars[p[2] + 1]
        /\ \A x, y \in DOMAIN pairs :
              x /= y => pairs[x][1] /= pairs[y][1] /\ pairs[x][2] /= pairs[y][2]
        /\ removed_a = [x \in 1..Len(a_chars) |-> \E p \in PairSet : p[1] = x - 1]
        /\ removed_b = [x \in 1..Len(b_chars) |-> \E p \in PairSet : p[2] = x - 1]

\* "aab" against "ba": the first a takes index 1, the second a finds it taken
\* and stays unpaired, b takes index 0
C1_Witness ==
    /\ pc = "animate"
    /\ a_chars = <<"a", "a", "b">>
    /\ b_chars = <<"b", "a">>
    /\ pairs = <<<<0, 1>>, <<2, 0>>>>
    /\ removed_a = <<TRUE, FALSE, TRUE>>

\* C6: the remaining count computed after the cross-out loop and passed to the
\* elimination is (len(A) - pairs) + (len(B) - pairs) for the pairs returned
\* by find_common_pairs, and is not negative.
C6_RemainingCount ==
    pc \in AfterCount =>
        /\ pairs = find_common_pairs(a_chars, b_chars).pairs
        /\ k = Len(pairs)
        /\ remaining = (Len(a_chars) - Len(pairs)) + (Len(b_chars) - Len(pairs))
        /\ remaining >= 0
        /\ count = remaining

C6_Witness ==
    /\ pc = "eliminate"
    /\ steps = <<>>
    /\ Len(pairs) = 2
    /\ remaining = 2
    /\ count = 2

Injections(n) == {f \in [1..n -> 1..n] : \A x, y \in 1..n : x /= y => f[x] /= f[y]}

\* b is a rearrangement of a
IsPermutation(a, b) ==
    /\ Len(a) = Len(b)
    /\ \E f \in Injections(Len(a)) : \A x \in 1..Len(a) : a[x] = b[f[x]]

\* C8: for two non-empty letter sequences the remaining count is 0 exactly
\* when they are permutations of each other, and at least 1 otherwise.
C8_ZeroIffAnagram ==
    (pc \in AfterCount /\ a_chars /= <<>> /\ b_chars /= <<>>) =>
        /\ (remaining = 0) <=> IsPermutation(a_chars, b_chars)
        /\ ~IsPermutation(a_chars, b_chars) => remaining >= 1

\* two different names that are anagrams: nothing remains
C8_Witness ==
    /\ pc = "eliminate"
    /\ a_chars /= b_chars
    /\ Len(a_chars) = 3
    /\ remaining = 0

LetterCount(c, s) == Cardinality({x \in DOMAIN s : s[x] = c})

Letters(s) == {s[x] : x \in DOMAIN s}

RECURSIVE SumMin(_, _, _)
SumMin(cs, a, b) ==
    IF cs = {} THEN 0
    ELSE LET c == CHOOSE x \in cs : TRUE
         IN  Min(LetterCount(c, a), LetterCount(c, b)) + SumMin(cs \ {c}, a, b)

Abs(x) == IF x < 0 THEN -x ELSE x

RECURSIVE SumAbsDiff(_, _, _)
SumAbsDiff(cs, a, b) ==
    IF cs = {} THEN 0
    ELSE LET c == CHOOSE x \in cs : TRUE
         IN  Abs(LetterCount(c, a) - LetterCount(c, b)) + SumAbsDiff(cs \ {c}, a, b)

\* the remaining count the script computes for the letter sequences a and b
RemainingOf(a, b) ==
    LET r == find_common_pairs(a, b)
    IN  CountNotRemoved(r.removed_a) + CountNotRemoved(r.removed_b)

Reordered(s, f) == [x \in 1..Len(s) |-> s[f[x]]]

\* C10: the number of pairs is the sum over letters of the smaller of the two
\* counts, the remaining count is the sum of the absolute differences of the
\* counts, and the remaining count and the final letter are the same with the
\* names swapped and with the letters of either name reordered.
C10_CountsDecide ==
    LET cs == Letters(a_chars) \cup Letters(b_chars)
    IN  /\ (pc = "eliminate" /\ steps = <<>>) =>
              /\ Len(pairs) = SumMin(cs, a_chars, b_chars)
              /\ remaining = SumAbsDiff(cs, a_chars, b_chars)
              /\ RemainingOf(b_chars, a_chars) = remaining
              /\ \A f \in Injections(Len(a_chars)) :
                    RemainingOf(Reordered(a_chars, f), b_chars) = remaining
              /\ \A f \in Injections(Len(b_chars)) :
                    RemainingOf(a_chars, Reordered(b_chars, f)) = remaining
        /\ pc = "returned" =>
              final_letter =
                  eliminate_flames_animation(RemainingOf(b_chars, a_chars)).final

\* "ab" against "bab": the swapped names give the same count through
\* different index pairs
C10_Witness ==
    /\ pc = "returned"
    /\ a_chars = <<"a", "b">>
    /\ b_chars = <<"b", "a", "b">>
    /\ pairs = <<<<0, 1>>, <<1, 0>>>>
    /\ find_common_pairs(b_chars, a_chars).pairs = <<<<0, 1>>, <<1, 0>>>>
    /\ find_common_pairs(<<"b", "b", "a">>, a_chars).pairs = <<<<0, 1>>, <<2, 0>>>>
    /\ remaining = 1
    /\ final_letter = "S"

-----------------------------------------------------------------------------
\* Properties of the submission (specification Spec)

\* C4: when a name sanitises to the empty sequence the submission shows the
\* error and does no matching, no elimination, shows no result and appends
\* nothing to the CSV; when both names sanitise to non-empty sequences no
\* error is shown and the matching is done.
C4_InvalidInputStops ==
    pc /= "form" =>
        IF sanitize(name1) = <<>> \/ sanitize(name2) = <<>>
        THEN /\ pc = "error"
             /\ error
             /\ calls = {"sanitize"}
             /\ pairs = <<>> /\ removed_a = <<>> /\ removed_b = <<>>
             /\ flames = <<>> /\ steps = <<>>
             /\ final_letter = "" /\ title = ""
             /\ csv = <<>>
             /\ ~ENABLED Next
        ELSE /\ pc /= "error"
             /\ ~error
             /\ "find_common_pairs" \in calls
             /\ pc /= "done" => ENABLED Next

\* the first name has a letter, the second is a lone space
C4_Witness ==
    /\ pc = "error"
    /\ error
    /\ s1 = <<"b">>
    /\ name2 = <<" ">>
    /\ s2 = <<>>

\* C5: the elimination is only started with a count of at least 1.
C5_EliminationCountAtLeastOne ==
    "eliminate_flames_animation" \in calls => count >= 1

-----------------------------------------------------------------------------
\* Properties of sanitize (specification SpecSanitize)

\* the alphabetic characters of name, in order, each lowercased
RECURSIVE LettersLowercased(_)
LettersLowercased(name) ==
    IF name = <<>> THEN <<>>
    ELSE (IF isalpha(Head(name)) THEN lower(Head(name)) ELSE <<>>)
         \o LettersLowercased(Tail(name))

\* C7: sanitize returns the input's alphabetic characters in their order,
\* lowercased, every other character discarded, and the result holds only
\* the letters a-z.
C7_SanitizeOnlyAsciiLetters ==
    pc = "sanitized" =>
        /\ s1 = LettersLowercased(name1)
        /\ \A x \in DOMAIN s1 : s1[x] \in AsciiLower

-----------------------------------------------------------------------------
\* Properties of the elimination (specifications SpecElim, SpecElimLive)

\* C2: for a count N >= 1 and a working sequence W of length n > 1, a step
\* removes W[(N - 1) mod n], which is the N-th letter counted around W and the
\* last letter when N is a multiple of n, appends it to the eliminated list
\* and leaves W[k+1..n-1] ++ W[0..k-1]; N = 6 removes S first, N = 2 removes L.
C2_StepRemovesAndRotates ==
    [][(pc = "eliminate" /\ count >= 1 /\ Len(flames) > 1) =>
          LET n == Len(flames)
              kk == (count - 1) % n
          IN  /\ steps' = Append(steps, flames[kk + 1])
              /\ flames' = SubSeq(flames, kk + 2, n) \o SubSeq(flames, 1, kk)
              /\ IF count % n = 0
                 THEN steps'[Len(steps')] = flames[n]
                 ELSE steps'[Len(steps')] = flames[count % n]
              /\ (flames = FLAMES /\ count = 6) => steps' = <<"S">>
              /\ (flames = FLAMES /\ count = 2) => steps' = <<"L">>]_vars

\* count 10: M is the 10th of six letters; then 10 is a multiple of the five
\* left, E S F L A, and the last of them is removed
C2_Witness ==
    /\ pc = "eliminate"
    /\ count = 10
    /\ steps = <<"M", "A">>
    /\ flames = <<"E", "S", "F", "L">>

Distinct(s) == \A x, y \in DOMAIN s : x /= y => s[x] /= s[y]

C3_Shape ==
    count >= 1 =>
        /\ steps = <<>> => flames = FLAMES
        /\ Len(flames) >= 1
        /\ Len(flames) + Len(steps) = 6
        /\ Distinct(steps \o flames)
        /\ Letters(steps) \cup Letters(flames) = Letters(FLAMES)
        /\ pc = "returned" =>
              /\ Len(steps) = 5
              /\ flames = <<final_letter>>
        /\ (pc = "eliminate" /\ Len(flames) = 1) => ENABLED ElimReturn

\* C3: for a count N >= 1 the working sequence starts as F,L,A,M,E,S, loses
\* exactly one letter on every step, and after five removals the process is
\* done with one letter left; the five eliminated letters are distinct and
\* with the survivor are the six letters.  The process does end.
C3_Terminates ==
    /\ []C3_Shape
    /\ [][(pc = "eliminate" /\ count >= 1 /\ Len(flames) > 1) =>
             (Len(flames') = Len(flames) - 1 /\ Len(steps') = Len(steps) + 1)]_vars
    /\ [][(pc = "eliminate" /\ count >= 1 /\ Len(flames) = 1) =>
             (pc' = "returned" /\ flames' = flames /\ steps' = steps)]_vars
    /\ (pc = "eliminate" /\ count >= 1)
          ~> (pc = "returned" /\ Len(steps) = 5 /\ Len(flames) = 1)

C3_Witness ==
    /\ pc = "returned"
    /\ count = 2 * max_chars
    /\ Len(steps) = 5
    /\ Len(flames) = 1

\* The counting-out game on the fixed ring F,L,A,M,E,S (positions 1..6)

\* the live position reached by moving clockwise from pos, at least one place
RECURSIVE NextLive(_, _)
NextLive(pos, alive) ==
    LET nxt == (pos % 6) + 1
    IN  IF nxt \in alive THEN nxt ELSE NextLive(nxt, alive)

\* the live position reached from pos by m moves to the next live letter: the
\* first half of the moves is made, then the rest from the position p reached
RECURSIVE Advance(_, _, _)
Advance(pos, alive, m) ==
    IF m = 0 THEN pos
    ELSE IF m = 1 THEN NextLive(pos, alive)
    ELSE CHOOSE q \in {Advance(p, alive, m - (m \div 2)) :
                          p \in {Advance(pos, alive, m \div 2)}} : TRUE

\* the live position on which the count m falls when pos is counted as 1
CountOut(pos, alive, m) == Advance(pos, alive, m - 1)

RECURSIVE RingGame(_, _, _, _)
RingGame(start, alive, N, struck) ==
    IF Cardinality(alive) = 1
    THEN [order |-> struck, survivor |-> FLAMES[CHOOSE x \in alive : TRUE]]
    ELSE LET s == CountOut(start, alive, N)
             left == alive \ {s}
         IN  RingGame(NextLive(s, left), left, N, Append(struck, FLAMES[s]))

Reference(N) == RingGame(1, 1..6, N, <<>>)

\* C9: for a count N >= 1 the eliminated order and the survivor of the
\* pop-and-rotate list are those of the counting-out game on the fixed ring;
\* for N = 2 the order is L, M, S, A, F and the survivor is E.
C9_MatchesRingGame ==
    count >= 1 =>
        /\ steps = SubSeq(Reference(count).order, 1, Len(steps))
        /\ pc = "returned" =>
              /\ steps = Reference(count).order
              /\ final_letter = Reference(count).survivor
        /\ (pc = "returned" /\ count = 2) =>
              /\ steps = <<"L", "M", "S", "A", "F">>
              /\ final_letter = "E"

C9_Witness ==
    /\ pc = "returned"
    /\ count = 2
    /\ steps = <<"L", "M", "S", "A", "F">>
    /\ final_letter = "E"

====
